---------------------------- MODULE Spec2Model ----------------------------
(***************************************************************************)
(* Model of the sane-rs client library (src/src/lib.rs): the five commands *)
(* of the SANE network protocol, issued over one bidirectional byte        *)
(* stream, and the string codec they use.                                  *)
(*                                                                         *)
(* Byte sequences (the stream in both directions, and strings) are kept    *)
(* run-length encoded: a sequence of runs <<byte, count>>, adjacent runs   *)
(* holding different bytes.  This lets the model hold the strings the      *)
(* length check of write_string is about (2^31 - 1 bytes and more) next to *)
(* the short ones.                                                         *)
(*                                                                         *)
(* The decoders of src/types.rs, src/device.rs and src/status.rs are not   *)
(* part of the sources at hand; they are modelled from sections 4.2, 4.3   *)
(* and 6 of the specification.                                             *)
(***************************************************************************)
EXTENDS Integers, Sequences, FiniteSets, TLC

VARIABLES
    build,       \* "debug" | "release": overflow checks on or off
    stream_in,   \* bytes the peer has sent and the client has not read
    ncalls,      \* number of commands issued so far
    cmd,         \* the last command: arguments, I/O log and outcome
    codec,       \* the string codec exercised on its own
    unit,        \* check_success_status or the device filter on its own
    prog         \* the client program: its position, locals and exchanges

vars == <<build, stream_in, ncalls, cmd, codec, unit, prog>>

-----------------------------------------------------------------------------
(* Bounds of the model. *)

\* Commands issued on one stream.
MaxCalls == 1
\* Device records in a ListDevices response.
MaxDevices == 2
\* Option descriptors in a GetOptionDescriptors response.
MaxOptions == 2
\* Bytes of a short string handed to write_string.
MaxStrLen == 2
\* I/O calls counted from the start of a command of which one may fail.
MaxFault == 7
\* The same for write_string exercised on its own.
MaxCodecFault == 3
\* Commands issued on one stream by an arbitrary caller.
MaxSession == 2
\* Longest decoded array handed to the device filter.
MaxDecoded == 4

-----------------------------------------------------------------------------
(* Program constants. *)

\* i32::max_value()
I32Max == 2147483647
I32Min == (-I32Max) - 1
\* const SANE_VERSION: u32 = 0x01000003
SANE_VERSION == 16777219

-----------------------------------------------------------------------------
(* Run-length encoded byte sequences. *)

\* Concatenation, merging the runs that meet when they hold the same byte.
Cat(a, b) ==
    IF a = <<>> THEN b
    ELSE IF b = <<>> THEN a
    ELSE IF a[Len(a)][1] = b[1][1]
         THEN SubSeq(a, 1, Len(a) - 1)
                \o << <<b[1][1], a[Len(a)][2] + b[1][2]>> >>
                \o Tail(b)
         ELSE a \o b

RECURSIVE FromBytes(_)
\* The run-length form of an explicit sequence of bytes.
FromBytes(s) ==
    IF s = <<>> THEN <<>>
    ELSE Cat(<< <<Head(s), 1>> >>, FromBytes(Tail(s)))

RECURSIVE ToBytes(_)
\* The explicit bytes of a (short) run-length sequence.
ToBytes(r) ==
    IF r = <<>> THEN <<>>
    ELSE IF r[1][2] = 1 THEN <<r[1][1]>> \o ToBytes(Tail(r))
    ELSE <<r[1][1]>> \o ToBytes(<< <<r[1][1], r[1][2] - 1>> >> \o Tail(r))

RECURSIVE Avail(_, _)
\* Whether r holds at least n bytes.
Avail(r, n) ==
    IF n <= 0 THEN TRUE
    ELSE IF r = <<>> THEN FALSE
    ELSE IF r[1][2] >= n THEN TRUE
    ELSE Avail(Tail(r), n - r[1][2])

RECURSIVE Take(_, _)
\* <<the first n bytes of r, the rest of r>>, for Avail(r, n).
Take(r, n) ==
    IF n <= 0 THEN <<<<>>, r>>
    ELSE IF r[1][2] > n
         THEN << << <<r[1][1], n>> >>,
                 << <<r[1][1], r[1][2] - n>> >> \o Tail(r) >>
    ELSE LET t == Take(Tail(r), n - r[1][2])
         IN  << <<r[1]>> \o t[1], t[2] >>

RECURSIVE SmallLen(_)
\* Number of bytes of a sequence known to be short.
SmallLen(r) == IF r = <<>> THEN 0 ELSE r[1][2] + SmallLen(Tail(r))

RECURSIVE LenFrom(_, _)
\* acc + the number of bytes of r, or -1 once that exceeds i32::MAX.
LenFrom(r, acc) ==
    IF r = <<>> THEN acc
    ELSE IF r[1][2] > I32Max - acc THEN -1
    ELSE LenFrom(Tail(r), acc + r[1][2])

\* str::len() as far as the code looks at it: the value when it is at most
\* i32::MAX, and whether it is above.
len_exceeds_i32_max(string) == LenFrom(string, 0) = -1
len_as_i32(string) == LenFrom(string, 0)

-----------------------------------------------------------------------------
(* Fixed-width big-endian integers (byteorder::BigEndian). *)

\* The four bytes of an i32 (two's complement) or of a u32 below 2^31.
be32(v) ==
    LET u   == IF v >= 0 THEN v ELSE (v + I32Max) + 1
        top == (u \div 16777216) + (IF v < 0 THEN 128 ELSE 0)
    IN  FromBytes(<<top, (u \div 65536) % 256, (u \div 256) % 256, u % 256>>)

\* The i32 held by four bytes.
from_be_i32(r) ==
    LET b == ToBytes(r)
        u == ((b[1] % 128) * 16777216) + (b[2] * 65536) + (b[3] * 256) + b[4]
    IN  IF b[1] >= 128 THEN (u - I32Max) - 1 ELSE u

\* The u32 held by four bytes, as its two 16-bit halves <<high, low>>.
from_be_u32(r) ==
    LET b == ToBytes(r) IN <<(b[1] * 256) + b[2], (b[3] * 256) + b[4]>>

\* A u32 below 2^31 as its two 16-bit halves.
U32(v) == <<v \div 65536, v % 65536>>

-----------------------------------------------------------------------------
(* Results. *)

Ok(v)  == [tag |-> "Ok", val |-> v]
Err(e) == [tag |-> "Err", val |-> e]
\* The value of a function declared without a return type.
Unit   == [tag |-> "Unit", val |-> <<>>]
\* The thread panicked: unwrap() on an Err, or an overflow check.
Panic  == [tag |-> "Panic", val |-> <<>>]

\* enum Error
SanedError(status)  == <<"SanedError", status>>
BadNetworkDataError == <<"BadNetworkDataError">>
FromUtf8Error       == <<"FromUtf8Error">>
IOError             == <<"IOError">>

\* Option<T>
None    == <<>>
Some(x) == <<x>>

-----------------------------------------------------------------------------
(* The stream: S: Read + Write.                                            *)
(*                                                                         *)
(* io.out    bytes accepted by the stream during the command               *)
(* io.inp    bytes the command can still read                              *)
(* io.k      number of I/O calls made by the command                       *)
(* io.fault  the number of the I/O call that fails (0: none does)          *)
(* io.log    the I/O calls in the order they were issued                   *)
(* io.stdout what the command printed                                      *)
(*                                                                         *)
(* Every operation on the stream returns [io |-> the stream after the      *)
(* call, ret |-> its result].                                              *)

NewIO(inp, fault) ==
    [out |-> <<>>, inp |-> inp, k |-> 0, fault |-> fault, log |-> <<>>,
     stdout |-> <<>>]

Only(S) == CHOOSE x \in S : TRUE

\* r, then K on its outcome whatever the result was: `let _ = r;`, `r.ok();`
\* (a panic still ends the command).
Drop(r, K(_)) ==
    Only({ IF x.ret.tag = "Panic" THEN x ELSE K(x) : x \in {r} })

\* `r?`: an Err (or a panic) is what the command returns, otherwise K goes on.
Try(r, K(_)) ==
    Only({ IF x.ret.tag \in {"Err", "Panic"} THEN x ELSE K(x) : x \in {r} })

\* `r.unwrap()`: an Err panics.
unwrap(r) ==
    Only({ IF x.ret.tag = "Err" THEN [io |-> x.io, ret |-> Panic] ELSE x
           : x \in {r} })

\* Write::write_all, Write::write of one byte, WriteBytesExt::write_*: the
\* stream takes the bytes unless the call fails (writing no byte cannot
\* fail).
write_all(io, data) ==
    LET ok == (data = <<>>) \/ ((io.k + 1) # io.fault)
    IN  [io |-> [io EXCEPT !.k = @ + 1,
                           !.out = IF ok THEN Cat(@, data) ELSE @,
                           !.log = Append(@, [op |-> "write", data |-> data,
                                              n |-> 0, ok |-> ok])],
         ret |-> IF ok THEN Ok(<<>>) ELSE Err(IOError)]

\* WriteBytesExt::write_i32::<BigEndian>, write_u32::<BigEndian>
write_i32(io, v) == write_all(io, be32(v))
write_u32(io, v) == write_all(io, be32(v))

\* Read::read_exact of n bytes: fails on a fault and when the stream ends
\* before n bytes (UnexpectedEof).
read_exact(io, n) ==
    LET ok == ((io.k + 1) # io.fault) /\ Avail(io.inp, n)
        data == IF ok THEN Take(io.inp, n)[1] ELSE <<>>
    IN  [io |-> [io EXCEPT !.k = @ + 1,
                           !.inp = IF ok THEN Take(@, n)[2] ELSE @,
                           !.log = Append(@, [op |-> "read", data |-> data,
                                              n |-> n, ok |-> ok])],
         ret |-> IF ok THEN Ok(data) ELSE Err(IOError)]

\* ReadBytesExt::read_i32::<BigEndian>
read_i32(io) ==
    Try(read_exact(io, 4),
        LAMBDA b : [io |-> b.io, ret |-> Ok(from_be_i32(b.ret.val))])

\* ReadBytesExt::read_u32::<BigEndian>
read_u32(io) ==
    Try(read_exact(io, 4),
        LAMBDA b : [io |-> b.io, ret |-> Ok(from_be_u32(b.ret.val))])

-----------------------------------------------------------------------------
(* write_string (lib.rs 136-166). *)

\* length + 1 on an i32 (line 159): overflow panics in a debug build and
\* wraps in a release build.
add_one_i32(length, bld) ==
    IF length = I32Max
    THEN IF bld = "debug" THEN Panic ELSE Ok(I32Min)
    ELSE Ok(length + 1)

\* The check of lines 146-152: is the string refused.
length_exceeded(string) == len_exceeds_i32_max(string)

write_string(string, io, bld) ==
    IF length_exceeded(string)
    THEN [io |-> io, ret |-> Err(BadNetworkDataError)]
    ELSE Try([io |-> io, ret |-> add_one_i32(len_as_i32(string), bld)],
         LAMBDA length :
         Drop(write_i32(length.io, length.ret.val), LAMBDA a :
         Drop(write_all(a.io, string), LAMBDA b :
         Drop(write_all(b.io, FromBytes(<<0>>)), LAMBDA c :
         [io |-> c.io, ret |-> Ok(<<>>)]))))

-----------------------------------------------------------------------------
(* Status (src/status.rs, from section 4.3 of the specification): a total  *)
(* map from the code; code 0 is Success, every other code an error variant *)
(* that keeps the code.                                                    *)

Status_from(code) == [success |-> code = 0, code |-> code]

\* read_status (lib.rs 168-170)
read_status(io) ==
    Try(read_i32(io),
        LAMBDA c : [io |-> c.io, ret |-> Ok(Status_from(c.ret.val))])

\* check_success_status without the arm for the other statuses.
check_success_status_accepting(io) ==
    Try(read_status(io), LAMBDA s : [io |-> s.io, ret |-> Ok(<<>>)])

\* check_success_status (lib.rs 174-179)
check_success_status(io) ==
    Try(read_status(io),
        LAMBDA s : [io |-> s.io,
                    ret |-> IF s.ret.val.success THEN Ok(<<>>)
                            ELSE Err(SanedError(s.ret.val))])

-----------------------------------------------------------------------------
(* The decoders (TryFromStream), from sections 4.2 and 6 of the            *)
(* specification.                                                          *)

\* Text is valid when every byte is below 0x80 (the bytes of the model are
\* ASCII or 0xFF, which no UTF-8 text holds).
IsUtf8(text) == \A i \in 1..Len(text) : text[i][1] < 128

\* The n bytes after a length field n >= 1: the text, then one byte dropped.
read_text(io, n) ==
    Try(read_exact(io, n), LAMBDA b :
        Only({ [io |-> b.io,
                ret |-> IF IsUtf8(text) THEN Ok(text) ELSE Err(FromUtf8Error)]
               : text \in {Take(b.ret.val, n - 1)[1]} }))

\* String: the length field, then that many bytes, the last one the NUL.
String_try_from_stream(io) ==
    Try(read_i32(io), LAMBDA l :
        IF l.ret.val <= 0
        THEN [io |-> l.io, ret |-> Err(BadNetworkDataError)]
        ELSE read_text(l.io, l.ret.val))

\* Option<String>: absent when the length field is 0 or the text is empty.
OptionString_try_from_stream(io) ==
    Try(read_i32(io), LAMBDA l :
        IF l.ret.val < 0
        THEN [io |-> l.io, ret |-> Err(BadNetworkDataError)]
        ELSE IF l.ret.val = 0 THEN [io |-> l.io, ret |-> Ok(None)]
        ELSE Try(read_text(l.io, l.ret.val), LAMBDA t :
                 [io |-> t.io,
                  ret |-> Ok(IF t.ret.val = <<>> THEN None
                             ELSE Some(t.ret.val))]))

RECURSIVE read_strings(_, _, _)
\* k strings in sequence, stopping at the first that fails.
read_strings(io, k, acc) ==
    IF k = 0 THEN [io |-> io, ret |-> Ok(acc)]
    ELSE Try(String_try_from_stream(io), LAMBDA s :
             read_strings(s.io, k - 1, Append(acc, s.ret.val)))

RECURSIVE read_words(_, _, _)
\* k int32 words in sequence, stopping at the first that fails.
read_words(io, k, acc) ==
    IF k = 0 THEN [io |-> io, ret |-> Ok(acc)]
    ELSE Try(read_i32(io), LAMBDA w :
             read_words(w.io, k - 1, Append(acc, w.ret.val)))

\* Device { kind, vendor, model, name }: four strings in that order.
Device_try_from_stream(io) ==
    Try(read_strings(io, 4, <<>>), LAMBDA f :
        [io |-> f.io,
         ret |-> Ok([kind |-> f.ret.val[1], vendor |-> f.ret.val[2],
                     model |-> f.ret.val[3], name |-> f.ret.val[4]])])

\* OptionDescriptor: name, title and description, then the words type,
\* unit, size, capabilities and constraint.
OptionDescriptor_try_from_stream(io) ==
    Try(read_strings(io, 3, <<>>), LAMBDA f :
    Try(read_words(f.io, 5, <<>>), LAMBDA w :
        [io |-> w.io,
         ret |-> Ok([name |-> f.ret.val[1], title |-> f.ret.val[2],
                     desc |-> f.ret.val[3], words |-> w.ret.val])]))

Record_try_from_stream(kind, io) ==
    IF kind = "Device" THEN Device_try_from_stream(io)
    ELSE OptionDescriptor_try_from_stream(io)

\* Option<Record>: a marker word, zero when the record follows.
OptionRecord_try_from_stream(kind, io) ==
    Try(read_i32(io), LAMBDA m :
        IF m.ret.val # 0 THEN [io |-> m.io, ret |-> Ok(None)]
        ELSE Try(Record_try_from_stream(kind, m.io), LAMBDA r :
                 [io |-> r.io, ret |-> Ok(Some(r.ret.val))]))

RECURSIVE read_array(_, _, _)
\* Vec<Option<Record>>: elements up to and including the first absent one;
\* an element that fails fails the array.
read_array(kind, io, acc) ==
    Try(OptionRecord_try_from_stream(kind, io), LAMBDA e :
        IF e.ret.val = None
        THEN [io |-> e.io, ret |-> Ok(Append(acc, None))]
        ELSE read_array(kind, e.io, Append(acc, e.ret.val)))

VecOption_try_from_stream(kind, io) == read_array(kind, io, <<>>)

-----------------------------------------------------------------------------
(* The commands (lib.rs 46-134). *)

\* enum OpenResult
Handle(h)              == <<"Handle", h>>
AuthRequired(resource) == <<"AuthRequired", resource>>

\* "Foobar"
Foobar == FromBytes(<<70, 111, 111, 98, 97, 114>>)

\* println!
Println(io, v) == [io EXCEPT !.stdout = Append(@, v)]

\* init sending the version before the zero word.
init_version_first(io, bld) ==
    Drop(write_u32(io, SANE_VERSION), LAMBDA a :
    Drop(write_u32(a.io, 0), LAMBDA b :
    Drop(write_string(Foobar, b.io, bld), LAMBDA c :
    Drop(check_success_status(c.io), LAMBDA d :
    Try(unwrap(read_u32(d.io)), LAMBDA version :
    [io |-> Println(version.io, version.ret.val), ret |-> Unit])))))

\* init (lib.rs 46-63): the results of the writes, of write_string and of
\* check_success_status are dropped; the version is unwrapped and printed.
init(io, bld) ==
    Drop(write_u32(io, 0), LAMBDA a :
    Drop(write_u32(a.io, SANE_VERSION), LAMBDA b :
    Drop(write_string(Foobar, b.io, bld), LAMBDA c :
    Drop(check_success_status(c.io), LAMBDA d :
    Try(unwrap(read_u32(d.io)), LAMBDA version :
    [io |-> Println(version.io, version.ret.val), ret |-> Unit])))))

RECURSIVE filter_some_until_absent(_)
\* filter_some stopping at the first absent element.
filter_some_until_absent(dev_list) ==
    IF dev_list = <<>> \/ Head(dev_list) = None THEN <<>>
    ELSE <<Head(dev_list)[1]>> \o filter_some_until_absent(Tail(dev_list))

RECURSIVE filter_some_reversed(_)
\* filter_some collecting in reverse order.
filter_some_reversed(dev_list) ==
    IF dev_list = <<>> THEN <<>>
    ELSE IF Head(dev_list) = None THEN filter_some_reversed(Tail(dev_list))
    ELSE filter_some_reversed(Tail(dev_list)) \o <<Head(dev_list)[1]>>

RECURSIVE filter_some(_)
\* .filter(|d| d.is_some()).map(|d| d.unwrap()).collect() (lib.rs 76-80)
filter_some(dev_list) ==
    IF dev_list = <<>> THEN <<>>
    ELSE IF Head(dev_list) = None THEN filter_some(Tail(dev_list))
    ELSE <<Head(dev_list)[1]>> \o filter_some(Tail(dev_list))

\* request_device_list (lib.rs 65-82)
request_device_list(io) ==
    Drop(write_i32(io, 1), LAMBDA a :
    Try(check_success_status(a.io), LAMBDA b :
    Try(VecOption_try_from_stream("Device", b.io), LAMBDA dev_list :
    [io |-> dev_list.io, ret |-> Ok(filter_some(dev_list.ret.val))])))

\* open_result without the match on the resource.
open_result_handle_always(handle, resource) == Handle(handle)

\* The match of lib.rs 99-104.
open_result(handle, resource) ==
    IF resource = None THEN Handle(handle) ELSE AuthRequired(resource[1])

\* open_device (lib.rs 84-105)
open_device(device, io, bld) ==
    Drop(write_i32(io, 2), LAMBDA a :
    Try(write_string(device.name, a.io, bld), LAMBDA b :
    Try(check_success_status(b.io), LAMBDA c :
    Try(unwrap(read_i32(c.io)), LAMBDA handle :
    Try(OptionString_try_from_stream(handle.io), LAMBDA resource :
    [io |-> resource.io,
     ret |-> Ok(open_result(handle.ret.val, resource.ret.val))])))))

\* close_device without the write of the handle.
close_device_opcode_only(handle, io) ==
    Drop(write_i32(io, 3), LAMBDA a :
    Try(unwrap(read_i32(a.io)), LAMBDA dummy :
    [io |-> dummy.io, ret |-> Unit]))

\* close_device checking the acknowledgement as a status.
close_device_checking_status(handle, io) ==
    Drop(write_i32(io, 3), LAMBDA a :
    Drop(write_i32(a.io, handle), LAMBDA b :
    Try(check_success_status(b.io), LAMBDA dummy :
    [io |-> dummy.io, ret |-> Unit])))

\* close_device (lib.rs 107-119)
close_device(handle, io) ==
    Drop(write_i32(io, 3), LAMBDA a :
    Drop(write_i32(a.io, handle), LAMBDA b :
    Try(unwrap(read_i32(b.io)), LAMBDA dummy :
    [io |-> dummy.io, ret |-> Unit])))

\* get_option_descriptors keeping the present elements only, as
\* request_device_list does.
get_option_descriptors_present_only(handle, io) ==
    Drop(write_i32(io, 4), LAMBDA a :
    Drop(write_i32(a.io, handle), LAMBDA b :
    Try(VecOption_try_from_stream("OptionDescriptor", b.io), LAMBDA l :
    [io |-> l.io, ret |-> Ok(filter_some(l.ret.val))])))

\* get_option_descriptors sending the opcode of close_device.
get_option_descriptors_opcode_3(handle, io) ==
    Drop(write_i32(io, 3), LAMBDA a :
    Drop(write_i32(a.io, handle), LAMBDA b :
    VecOption_try_from_stream("OptionDescriptor", b.io)))

\* get_option_descriptors (lib.rs 121-134)
get_option_descriptors(handle, io) ==
    Drop(write_i32(io, 4), LAMBDA a :
    Drop(write_i32(a.io, handle), LAMBDA b :
    VecOption_try_from_stream("OptionDescriptor", b.io)))

-----------------------------------------------------------------------------
(* The peer: the responses of section 6 of the specification, as the bytes *)
(* the server puts on the stream.                                          *)

RECURSIVE CatAll(_)
CatAll(parts) ==
    IF parts = <<>> THEN <<>> ELSE Cat(Head(parts), CatAll(Tail(parts)))

\* string: int32 length = byteLen + 1, the bytes, one 0x00 byte.
StringWire(s) == CatAll(<<be32(SmallLen(s) + 1), s, FromBytes(<<0>>)>>)

RECURSIVE WordsWire(_)
WordsWire(ws) ==
    IF ws = <<>> THEN <<>> ELSE Cat(be32(Head(ws)), WordsWire(Tail(ws)))

DeviceWire(d) ==
    CatAll(<<StringWire(d.kind), StringWire(d.vendor), StringWire(d.model),
             StringWire(d.name)>>)

OptionDescriptorWire(o) ==
    CatAll(<<StringWire(o.name), StringWire(o.title), StringWire(o.desc),
             WordsWire(o.words)>>)

RecordWire(kind, r) ==
    IF kind = "Device" THEN DeviceWire(r) ELSE OptionDescriptorWire(r)

RECURSIVE PresentWire(_, _)
\* Present records, each behind its marker word 0.
PresentWire(kind, records) ==
    IF records = <<>> THEN <<>>
    ELSE CatAll(<<be32(0), RecordWire(kind, Head(records)),
                  PresentWire(kind, Tail(records))>>)

\* The array of section 6: the present records, then the absent marker.
ArrayWire(kind, records) == Cat(PresentWire(kind, records), be32(1))

\* Optional resource string: absent as length 0 or as the empty string.
ResourceWire(resource) ==
    IF resource.present THEN StringWire(resource.text)
    ELSE IF resource.marker = 0 THEN be32(0)
    ELSE StringWire(<<>>)

\* Status codes a peer answers with: Success, Inval, an unknown code.
PeerStatus == {0, 4, 99}
Success == 0
PeerVersions == {SANE_VERSION, 16777216}
PeerHandles == {42, -7}
PeerDevices ==
    { [kind |-> FromBytes(<<115>>), vendor |-> FromBytes(<<65>>),
       model |-> FromBytes(<<88>>), name |-> FromBytes(<<110, n>>)]
      : n \in {49, 50} }
PeerOptions ==
    { [name |-> FromBytes(<<n>>), title |-> FromBytes(<<82>>),
       desc |-> <<>>, words |-> <<1, 0, 4, 5, 0>>] : n \in {114, 120} }
PeerResources ==
    { [present |-> FALSE, marker |-> 0, text |-> <<>>],
      [present |-> FALSE, marker |-> 1, text |-> <<>>],
      [present |-> TRUE, marker |-> 2, text |-> FromBytes(<<80>>)] }
\* Bytes on the stream behind the response.
Tails == {<<>>, FromBytes(<<170>>)}

SeqsUpTo(S, n) == UNION {[1..k -> S] : k \in 0..n}

\* With a status other than Success the payload is sent or left out.
PayloadChoice(status) == IF status = Success THEN {TRUE} ELSE BOOLEAN

InitResponses ==
    { [status |-> s, payload |-> p, version |-> v, tail |-> t]
      : s \in PeerStatus, p \in BOOLEAN, v \in PeerVersions, t \in Tails }
InitChoices ==
    { r \in InitResponses :
        /\ r.payload \in PayloadChoice(r.status)
        /\ ~r.payload => r.version = SANE_VERSION }
InitWire(r) ==
    CatAll(<<be32(r.status),
             IF r.payload THEN be32(r.version) ELSE <<>>, r.tail>>)

ListResponses ==
    { [status |-> s, payload |-> p, devices |-> d, tail |-> t]
      : s \in PeerStatus, p \in BOOLEAN,
        d \in SeqsUpTo(PeerDevices, MaxDevices), t \in Tails }
ListChoices ==
    { r \in ListResponses :
        /\ r.payload \in PayloadChoice(r.status)
        /\ ~r.payload => r.devices = <<>> }
ListWire(r) ==
    CatAll(<<be32(r.status),
             IF r.payload THEN ArrayWire("Device", r.devices) ELSE <<>>,
             r.tail>>)

OpenResponses ==
    { [status |-> s, payload |-> p, handle |-> h, resource |-> x, tail |-> t]
      : s \in PeerStatus, p \in BOOLEAN, h \in PeerHandles,
        x \in PeerResources, t \in Tails }
OpenChoices ==
    { r \in OpenResponses :
        /\ r.payload \in PayloadChoice(r.status)
        /\ ~r.payload => (r.handle = 42 /\ ~r.resource.present
                           /\ r.resource.marker = 0) }
OpenWire(r) ==
    CatAll(<<be32(r.status),
             IF r.payload THEN Cat(be32(r.handle), ResourceWire(r.resource))
             ELSE <<>>,
             r.tail>>)

CloseResponses == { [word |-> w, tail |-> t] : w \in {0, 4}, t \in Tails }
CloseWire(r) == Cat(be32(r.word), r.tail)

OptionsResponses ==
    { [options |-> o, tail |-> t]
      : o \in SeqsUpTo(PeerOptions, MaxOptions), t \in Tails }
OptionsWire(r) == Cat(ArrayWire("OptionDescriptor", r.options), r.tail)

\* The peer answers with exactly the response of section 6: nothing follows
\* it. After a status other than Success the payload fields are undefined
\* (section 3): the peer sends them or leaves them out.
WellFormed(r) == r.tail = <<>>

-----------------------------------------------------------------------------
(* The log of I/O calls of a command. *)

\* The I/O calls of a log as they were issued: what was to be written, how
\* many bytes were to be read.
IssuedCall(e) ==
    [op |-> e.op, data |-> IF e.op = "write" THEN e.data ELSE <<>>, n |-> e.n]
Issued(log) == [i \in 1..Len(log) |-> IssuedCall(log[i])]
IssuedWrites(log) == SelectSeq(Issued(log), LAMBDA e : e.op = "write")
WriteCall(bytes) == [op |-> "write", data |-> FromBytes(bytes), n |-> 0]
ReadCall(n) == [op |-> "read", data |-> <<>>, n |-> n]

NoReadFailed(log) == \A i \in 1..Len(log) : log[i].op = "read" => log[i].ok
SomeRead(log) == \E i \in 1..Len(log) : log[i].op = "read"
SomeCallFailed(log) == \E i \in 1..Len(log) : ~log[i].ok
WritesBeforeReads(log) ==
    \A i, j \in 1..Len(log) :
        (log[i].op = "read" /\ log[j].op = "write") => j < i

RECURSIVE BytesRead(_)
\* Number of response bytes the calls of a log consumed.
BytesRead(log) ==
    IF log = <<>> THEN 0
    ELSE (IF Head(log).op = "read" /\ Head(log).ok THEN Head(log).n ELSE 0)
           + BytesRead(Tail(log))

-----------------------------------------------------------------------------
(* Callers. *)

\* A string of n bytes 'A' (one run).
Filled(n) == << <<65, n>> >>

\* Device names handed to open_device: short ones, and the lengths around
\* i32::MAX (2^31 - 2, 2^31 - 1 and 2^31 bytes).
DeviceNames ==
    { FromBytes(<<110, 49>>), Filled(I32Max - 1), Filled(I32Max),
      Cat(Filled(I32Max), FromBytes(<<66>>)) }

DeviceArg(name) ==
    [kind |-> FromBytes(<<115>>), vendor |-> FromBytes(<<65>>),
     model |-> FromBytes(<<88>>), name |-> name]

Faults == 0..MaxFault

NoCmd ==
    [name |-> "none", arg |-> <<>>, resp |-> <<>>, fault |-> 0,
     pre |-> <<>>, wire |-> <<>>, log |-> <<>>, out |-> <<>>,
     ret |-> Unit, stdout |-> <<>>, rest |-> <<>>]

NoCodec ==
    [phase |-> "off", string |-> <<>>, fault |-> 0, out |-> <<>>,
     log |-> <<>>, wret |-> Unit, rret |-> Unit, rest |-> <<>>]

NoUnit ==
    [fn |-> "off", phase |-> "off", input |-> <<>>, fault |-> 0,
     ret |-> Unit, log |-> <<>>, rest |-> <<>>]

NoProg ==
    [pc |-> "off", devices |-> <<>>, device |-> <<>>, handle |-> None,
     hist |-> <<>>]

\* The caller may issue a command: the process has not panicked.
CanCall == ncalls < MaxCalls /\ cmd.ret.tag # "Panic"

\* One command from call to return: the peer's response arrives behind what
\* is still unread, the command runs on the stream, r is what it returns.
Exchange(name, arg, resp, wire, fault, r) ==
    /\ cmd' = [name |-> name, arg |-> arg, resp |-> resp, fault |-> fault,
               pre |-> stream_in, wire |-> wire, log |-> r.io.log,
               out |-> r.io.out, ret |-> r.ret, stdout |-> r.io.stdout,
               rest |-> r.io.inp]
    /\ stream_in' = r.io.inp
    /\ ncalls' = ncalls + 1

\* A command called on its own.
Returned(name, arg, resp, wire, fault, r) ==
    /\ Exchange(name, arg, resp, wire, fault, r)
    /\ UNCHANGED <<build, codec, unit, prog>>

\* The stream as the command finds it: the response behind what is unread.
Arrive(wire, fault) == NewIO(Cat(stream_in, wire), fault)

CallInit ==
    /\ CanCall
    /\ \E resp \in InitChoices, fault \in Faults :
       \E io \in {Arrive(InitWire(resp), fault)} :
       \E r \in {init(io, build)} :
         Returned("init", <<>>, resp, InitWire(resp), fault, r)

CallRequestDeviceList ==
    /\ CanCall
    /\ \E resp \in ListChoices, fault \in Faults :
       \E io \in {Arrive(ListWire(resp), fault)} :
       \E r \in {request_device_list(io)} :
         Returned("request_device_list", <<>>, resp, ListWire(resp), fault, r)

CallOpenDevice ==
    /\ CanCall
    /\ \E name \in DeviceNames, resp \in OpenChoices, fault \in Faults :
       \E io \in {Arrive(OpenWire(resp), fault)} :
       \E r \in {open_device(DeviceArg(name), io, build)} :
         Returned("open_device", DeviceArg(name), resp, OpenWire(resp),
                  fault, r)

CallCloseDevice ==
    /\ CanCall
    /\ \E handle \in PeerHandles, resp \in CloseResponses, fault \in Faults :
       \E io \in {Arrive(CloseWire(resp), fault)} :
       \E r \in {close_device(handle, io)} :
         Returned("close_device", handle, resp, CloseWire(resp), fault, r)

CallGetOptionDescriptors ==
    /\ CanCall
    /\ \E handle \in PeerHandles, resp \in OptionsResponses, fault \in Faults :
       \E io \in {Arrive(OptionsWire(resp), fault)} :
       \E r \in {get_option_descriptors(handle, io)} :
         Returned("get_option_descriptors", handle, resp, OptionsWire(resp),
                  fault, r)

Init ==
    /\ build \in {"debug", "release"}
    /\ stream_in = <<>>
    /\ ncalls = 0
    /\ cmd = NoCmd
    /\ codec = NoCodec
    /\ unit = NoUnit
    /\ prog = NoProg

Next ==
    \/ CallInit
    \/ CallRequestDeviceList
    \/ CallOpenDevice
    \/ CallCloseDevice
    \/ CallGetOptionDescriptors

Spec == Init /\ [][Next]_vars

-----------------------------------------------------------------------------
(* The string codec on its own: write_string applied to a string on an     *)
(* empty stream, then the string decoder applied to what the stream took.  *)

\* Strings of up to n bytes over NUL, 'A' and 'B'.
ShortStrings(n) == {FromBytes(b) : b \in SeqsUpTo({0, 65, 66}, n)}

\* The short strings, and strings of 2^31 - 2, 2^31 - 1 and 2^31 bytes.
CodecStrings ==
    ShortStrings(MaxStrLen)
      \cup { Filled(I32Max - 1), Filled(I32Max),
             Cat(Filled(I32Max), FromBytes(<<66>>)) }

CodecInit ==
    /\ build \in {"debug", "release"}
    /\ stream_in = <<>>
    /\ ncalls = 0
    /\ cmd = NoCmd
    /\ unit = NoUnit
    /\ prog = NoProg
    /\ \E string \in CodecStrings, fault \in 0..MaxCodecFault :
         codec = [NoCodec EXCEPT !.phase = "input", !.string = string,
                                 !.fault = fault]

CodecWriteString ==
    /\ codec.phase = "input"
    /\ \E w \in {write_string(codec.string, NewIO(<<>>, codec.fault), build)} :
           codec' = [codec EXCEPT !.phase = "written", !.out = w.io.out,
                                  !.log = w.io.log, !.wret = w.ret]
    /\ UNCHANGED <<build, stream_in, ncalls, cmd, unit, prog>>

CodecReadString ==
    /\ codec.phase = "written"
    /\ codec.wret.tag = "Ok"
    /\ \E r \in {String_try_from_stream(NewIO(codec.out, 0))} :
           codec' = [codec EXCEPT !.phase = "read", !.rret = r.ret,
                                  !.rest = r.io.inp]
    /\ UNCHANGED <<build, stream_in, ncalls, cmd, unit, prog>>

CodecNext == CodecWriteString \/ CodecReadString

SpecCodec == CodecInit /\ [][CodecNext]_vars

-----------------------------------------------------------------------------
(* check_success_status on its own: a stream that holds the first bytes of *)
(* a status word, and what follows it.                                     *)

\* Status codes on the stream: the codes of the protocol, a negative code
\* and an unknown one.
StatusCodes == ((-1)..12) \cup {99}

\* The stream holds `sent` bytes of the status word; behind a whole word
\* there may be more.
StatusInputs ==
    { [code |-> c, sent |-> n, tail |-> t]
      : c \in StatusCodes, n \in 0..4, t \in Tails }
StatusChoices ==
    { i \in StatusInputs :
        /\ i.sent < 4 => i.tail = <<>>
        /\ i.sent < 4 => i.code \in {0, 4} }
StatusWire(i) ==
    IF i.sent = 4 THEN Cat(be32(i.code), i.tail)
    ELSE IF i.sent = 0 THEN <<>> ELSE Take(be32(i.code), i.sent)[1]

StatusInit ==
    /\ build \in {"debug", "release"}
    /\ stream_in = <<>>
    /\ ncalls = 0
    /\ cmd = NoCmd
    /\ codec = NoCodec
    /\ prog = NoProg
    /\ \E i \in StatusChoices, fault \in {0, 1} :
         unit = [NoUnit EXCEPT !.fn = "check_success_status",
                               !.phase = "input", !.input = i,
                               !.fault = fault]

StatusCheck ==
    /\ unit.fn = "check_success_status"
    /\ unit.phase = "input"
    /\ \E r \in {check_success_status(NewIO(StatusWire(unit.input),
                                             unit.fault))} :
           unit' = [unit EXCEPT !.phase = "done", !.ret = r.ret,
                                !.log = r.io.log, !.rest = r.io.inp]
    /\ UNCHANGED <<build, stream_in, ncalls, cmd, codec, prog>>

StatusNext == StatusCheck

SpecStatus == StatusInit /\ [][StatusNext]_vars

-----------------------------------------------------------------------------
(* The device filter on its own: any decoded array, absent elements in any *)
(* position.                                                               *)

DecodedElements == {None} \cup {Some(d) : d \in PeerDevices}

FilterInit ==
    /\ build \in {"debug", "release"}
    /\ stream_in = <<>>
    /\ ncalls = 0
    /\ cmd = NoCmd
    /\ codec = NoCodec
    /\ prog = NoProg
    /\ \E dev_list \in SeqsUpTo(DecodedElements, MaxDecoded) :
         unit = [NoUnit EXCEPT !.fn = "filter", !.phase = "input",
                               !.input = dev_list]

FilterPresent ==
    /\ unit.fn = "filter"
    /\ unit.phase = "input"
    /\ unit' = [unit EXCEPT !.phase = "done",
                            !.ret = Ok(filter_some(unit.input))]
    /\ UNCHANGED <<build, stream_in, ncalls, cmd, codec, prog>>

FilterNext == FilterPresent

SpecFilter == FilterInit /\ [][FilterNext]_vars

-----------------------------------------------------------------------------
(* The client program (src/bin/test.rs, main): init, the device list, the  *)
(* first device opened, its option descriptors, the device closed, on one  *)
(* stream. The peer answers each request with one response of section 6.   *)

\* I/O calls of a command that may fail in the program (0: none).
MainFaults == {0, 1, 3}

\* One exchange as the program issued it.
Entry(name, arg, r) ==
    [name |-> name, arg |-> arg, ret |-> r.ret,
     writes |-> IssuedWrites(r.io.log),
     nreads |-> Len(SelectSeq(r.io.log, LAMBDA e : e.op = "read"))]

\* The match on the result of open_device (test.rs 41-56).
main_handle(result) ==
    IF result.tag = "Ok" /\ result.val[1] = "Handle" THEN Some(result.val[2])
    ELSE None

\* handle.unwrap_or_default() in place of handle.unwrap().
handle_unwrap_or_default(handle) ==
    IF handle = None THEN Ok(0) ELSE Ok(handle[1])

\* handle.unwrap() (test.rs 58, 67)
handle_unwrap(handle) == IF handle = None THEN Panic ELSE Ok(handle[1])

\* An exchange of the program and where the program goes after it.
MainExchange(name, arg, resp, wire, fault, r, next) ==
    /\ Exchange(name, arg, resp, wire, fault, r)
    /\ prog' = [next EXCEPT !.hist = Append(prog.hist, Entry(name, arg, r))]
    /\ UNCHANGED <<build, codec, unit>>

\* A step of the program that issues no exchange.
MainLocal(next) ==
    /\ prog' = next
    /\ UNCHANGED <<build, stream_in, ncalls, cmd, codec, unit>>

MainStart ==
    /\ build \in {"debug", "release"}
    /\ stream_in = <<>>
    /\ ncalls = 0
    /\ cmd = NoCmd
    /\ codec = NoCodec
    /\ unit = NoUnit
    /\ prog = [NoProg EXCEPT !.pc = "init"]

\* init(&mut stream);
MainCallInit ==
    /\ prog.pc = "init"
    /\ \E resp \in {x \in InitChoices : WellFormed(x)}, fault \in MainFaults :
       \E io \in {Arrive(InitWire(resp), fault)} :
       \E r \in {init(io, build)} :
         MainExchange("init", <<>>, resp, InitWire(resp), fault, r,
            [prog EXCEPT !.pc = IF r.ret = Panic THEN "panicked"
                                ELSE "request_device_list"])

\* let devices = request_device_list(&mut stream).unwrap();
MainCallRequestDeviceList ==
    /\ prog.pc = "request_device_list"
    /\ \E resp \in {x \in ListChoices : WellFormed(x)}, fault \in MainFaults :
       \E io \in {Arrive(ListWire(resp), fault)} :
       \E r \in {unwrap(request_device_list(io))} :
         MainExchange("request_device_list", <<>>, resp, ListWire(resp),
            fault, r,
            IF r.ret = Panic THEN [prog EXCEPT !.pc = "panicked"]
            ELSE [prog EXCEPT !.pc = "first_device",
                              !.devices = r.ret.val])

\* let device = devices.iter()...take(1).next().unwrap();
MainFirstDevice ==
    /\ prog.pc = "first_device"
    /\ MainLocal(IF prog.devices = <<>> THEN [prog EXCEPT !.pc = "panicked"]
                 ELSE [prog EXCEPT !.pc = "open_device",
                                   !.device = prog.devices[1]])

\* let handle = match open_device(&device, &mut stream) { ... };
MainCallOpenDevice ==
    /\ prog.pc = "open_device"
    /\ \E resp \in {x \in OpenChoices : WellFormed(x)}, fault \in MainFaults :
       \E io \in {Arrive(OpenWire(resp), fault)} :
       \E r \in {open_device(prog.device, io, build)} :
         MainExchange("open_device", prog.device, resp, OpenWire(resp),
            fault, r,
            IF r.ret = Panic THEN [prog EXCEPT !.pc = "panicked"]
            ELSE [prog EXCEPT !.pc = "get_option_descriptors",
                              !.handle = main_handle(r.ret)])

\* let options = match get_option_descriptors(handle.unwrap(), &mut stream)
\* { Ok(options) => options, Err(e) => panic!() };
MainCallGetOptionDescriptors ==
    /\ prog.pc = "get_option_descriptors"
    /\ \E h \in {handle_unwrap(prog.handle)} :
       IF h = Panic THEN MainLocal([prog EXCEPT !.pc = "panicked"])
       ELSE \E resp \in {x \in OptionsResponses : WellFormed(x)},
               fault \in MainFaults :
            \E io \in {Arrive(OptionsWire(resp), fault)} :
            \E r \in {get_option_descriptors(h.val, io)} :
              MainExchange("get_option_descriptors", h.val, resp,
                 OptionsWire(resp), fault, r,
                 [prog EXCEPT !.pc = IF r.ret.tag = "Ok" THEN "close_device"
                                     ELSE "panicked"])

\* close_device(handle.unwrap(), &mut stream);
MainCallCloseDevice ==
    /\ prog.pc = "close_device"
    /\ \E h \in {handle_unwrap(prog.handle)} :
       IF h = Panic THEN MainLocal([prog EXCEPT !.pc = "panicked"])
       ELSE \E resp \in {x \in CloseResponses : WellFormed(x)},
               fault \in MainFaults :
            \E io \in {Arrive(CloseWire(resp), fault)} :
            \E r \in {close_device(h.val, io)} :
              MainExchange("close_device", h.val, resp, CloseWire(resp),
                 fault, r,
                 [prog EXCEPT !.pc = IF r.ret = Panic THEN "panicked"
                                     ELSE "done"])

MainNext ==
    \/ MainCallInit
    \/ MainCallRequestDeviceList
    \/ MainFirstDevice
    \/ MainCallOpenDevice
    \/ MainCallGetOptionDescriptors
    \/ MainCallCloseDevice

SpecMain == MainStart /\ [][MainNext]_vars

-----------------------------------------------------------------------------
(* Any caller: commands in any order and with any argument on one stream,  *)
(* the peer answering each with one response of section 6.                 *)

SessionStart ==
    /\ build \in {"debug", "release"}
    /\ stream_in = <<>>
    /\ ncalls = 0
    /\ cmd = NoCmd
    /\ codec = NoCodec
    /\ unit = NoUnit
    /\ prog = [NoProg EXCEPT !.pc = "session"]

SessionCanCall ==
    /\ prog.pc = "session"
    /\ Len(prog.hist) < MaxSession
    /\ cmd.ret.tag # "Panic"

SessionExchange(name, arg, resp, wire, r) ==
    /\ Exchange(name, arg, resp, wire, 0, r)
    /\ prog' = [prog EXCEPT !.hist = Append(@, Entry(name, arg, r))]
    /\ UNCHANGED <<build, codec, unit>>

SessionCallInit ==
    /\ SessionCanCall
    /\ \E resp \in {x \in InitChoices : WellFormed(x)} :
       \E io \in {Arrive(InitWire(resp), 0)} :
       \E r \in {init(io, build)} :
         SessionExchange("init", <<>>, resp, InitWire(resp), r)

SessionCallRequestDeviceList ==
    /\ SessionCanCall
    /\ \E resp \in {x \in ListChoices : WellFormed(x)} :
       \E io \in {Arrive(ListWire(resp), 0)} :
       \E r \in {request_device_list(io)} :
         SessionExchange("request_device_list", <<>>, resp, ListWire(resp), r)

SessionCallOpenDevice ==
    /\ SessionCanCall
    /\ \E name \in DeviceNames, resp \in {x \in OpenChoices : WellFormed(x)} :
       \E io \in {Arrive(OpenWire(resp), 0)} :
       \E r \in {open_device(DeviceArg(name), io, build)} :
         SessionExchange("open_device", DeviceArg(name), resp,
                         OpenWire(resp), r)

SessionCallCloseDevice ==
    /\ SessionCanCall
    /\ \E handle \in PeerHandles,
          resp \in {x \in CloseResponses : WellFormed(x)} :
       \E io \in {Arrive(CloseWire(resp), 0)} :
       \E r \in {close_device(handle, io)} :
         SessionExchange("close_device", handle, resp, CloseWire(resp), r)

SessionCallGetOptionDescriptors ==
    /\ SessionCanCall
    /\ \E handle \in PeerHandles,
          resp \in {x \in OptionsResponses : WellFormed(x)} :
       \E io \in {Arrive(OptionsWire(resp), 0)} :
       \E r \in {get_option_descriptors(handle, io)} :
         SessionExchange("get_option_descriptors", handle, resp,
                         OptionsWire(resp), r)

SessionNext ==
    \/ SessionCallInit
    \/ SessionCallRequestDeviceList
    \/ SessionCallOpenDevice
    \/ SessionCallCloseDevice
    \/ SessionCallGetOptionDescriptors

SpecSession == SessionStart /\ [][SessionNext]_vars

-----------------------------------------------------------------------------
(* Properties. *)

\* The command found the stream aligned and read the status word of its
\* response.
StatusWordRead ==
    /\ cmd.pre = <<>>
    /\ SomeRead(cmd.log)
    /\ SelectSeq(cmd.log, LAMBDA e : e.op = "read")[1].ok

\* C1: a command whose response carries a status word (Init, ListDevices,
\* OpenDevice; the GetOptionDescriptors response of section 6 has none and
\* the command reads none) and that reads a status other than Success
\* returns the error of that status and reads nothing after the 4 bytes of
\* the status word.
C1_NonSuccessStatusReturned ==
    ( /\ cmd.name \in {"init", "request_device_list", "open_device"}
      /\ StatusWordRead
      /\ cmd.resp.status # Success )
    => /\ cmd.ret = Err(SanedError(Status_from(cmd.resp.status)))
       /\ BytesRead(cmd.log) = 4

\* C2: on a Success response holding N present device records and the
\* absent marker, request_device_list returns those N devices in the order
\* they were sent and leaves on the stream exactly what follows the marker.
C2_DeviceListDecoded ==
    ( /\ cmd.name = "request_device_list"
      /\ cmd.pre = <<>>
      /\ cmd.resp.status = Success
      /\ NoReadFailed(cmd.log) )
    => /\ cmd.ret = Ok(cmd.resp.devices)
       /\ cmd.rest = cmd.resp.tail

C2_TwoDevicesThenTail ==
    /\ cmd.name = "request_device_list"
    /\ cmd.resp.status = Success
    /\ Len(cmd.resp.devices) = MaxDevices
    /\ cmd.resp.devices[1] # cmd.resp.devices[2]
    /\ cmd.resp.tail # <<>>
    /\ cmd.ret.tag = "Ok"
    /\ Len(cmd.ret.val) = MaxDevices
    /\ cmd.rest = cmd.resp.tail

\* C3: on a Success response with handle h, open_device returns Handle(h)
\* when the resource is absent and AuthRequired(resource), without the
\* handle, when it is present; one of the two always.
C3_OpenResultMatchesResource ==
    ( /\ cmd.name = "open_device"
      /\ StatusWordRead
      /\ cmd.resp.status = Success
      /\ NoReadFailed(cmd.log) )
    => IF cmd.resp.resource.present
       THEN cmd.ret = Ok(AuthRequired(cmd.resp.resource.text))
       ELSE cmd.ret = Ok(Handle(cmd.resp.handle))

C3_AuthRequiredReturned ==
    /\ cmd.name = "open_device"
    /\ cmd.resp.status = Success
    /\ cmd.resp.resource.present
    /\ cmd.ret = Ok(AuthRequired(cmd.resp.resource.text))

\* The I/O calls of an Init exchange: 0x00000000, 0x01000003, the string
\* "Foobar" (length 7, the text, NUL), then two reads of 4 bytes.
InitExchange ==
    << WriteCall(<<0, 0, 0, 0>>), WriteCall(<<1, 0, 0, 3>>),
       WriteCall(<<0, 0, 0, 7>>), WriteCall(<<70, 111, 111, 98, 97, 114>>),
       WriteCall(<<0>>), ReadCall(4), ReadCall(4) >>

\* C4: the I/O calls init issues are, in this order, the writes of the zero
\* word, of the version 0x01000003 and of the client identifier as a
\* string, then the read of the 4-byte status and the read of the 4-byte
\* version, and no other.
C4_InitExchangeOrder ==
    cmd.name = "init" => Issued(cmd.log) = InitExchange

C4_InitCompleted ==
    /\ cmd.name = "init"
    /\ cmd.fault = 0
    /\ cmd.resp.status = Success
    /\ cmd.ret = Unit
    /\ BytesRead(cmd.log) = 8

\* The four bytes of the handles of the model.
HandleBytes(h) == IF h = 42 THEN <<0, 0, 0, 42>> ELSE <<255, 255, 255, 249>>

\* The writes write_string issues for a string on its own.
StringWrites(string) ==
    IssuedWrites(write_string(string, NewIO(<<>>, 0), build).io.log)

\* The request of each command: the opcode, then the parameter.
Request(c) ==
    IF c.name = "request_device_list" THEN <<WriteCall(<<0, 0, 0, 1>>)>>
    ELSE IF c.name = "open_device"
         THEN <<WriteCall(<<0, 0, 0, 2>>)>> \o StringWrites(c.arg.name)
    ELSE IF c.name = "close_device"
         THEN <<WriteCall(<<0, 0, 0, 3>>), WriteCall(HandleBytes(c.arg))>>
    ELSE <<WriteCall(<<0, 0, 0, 4>>), WriteCall(HandleBytes(c.arg))>>

C6_InitReturnsVersion ==
    ( /\ cmd.name = "init"
      /\ cmd.pre = <<>>
      /\ cmd.fault = 0
      /\ cmd.resp.status = Success )
    => cmd.ret = Ok(U32(cmd.resp.version))

\* The string of the codec is within the length ceiling.
WithinCeiling == ~len_exceeds_i32_max(codec.string)

\* The 4 bytes at the head of w hold the int32 length + 1.
HoldsLengthPlusOne(w, length) ==
    /\ Avail(w, 4)
    /\ from_be_i32(Take(w, 4)[1]) > 0
    /\ from_be_i32(Take(w, 4)[1]) - 1 = length

\* C7: when write_string returns Ok for a string of L bytes, the stream
\* has taken the int32 L + 1 in 4 big-endian bytes, then the L bytes of the
\* string, then one NUL byte, and nothing else.
C7_WriteStringWritesLengthTextNul ==
    (codec.phase \in {"written", "read"} /\ codec.wret.tag = "Ok")
    => /\ HoldsLengthPlusOne(codec.out, len_as_i32(codec.string))
       /\ Take(codec.out, 4)[2] = Cat(codec.string, FromBytes(<<0>>))

\* C8: for every string within the ceiling, on a stream without faults,
\* write_string returns Ok and the string decoder applied to the bytes
\* written returns the string and consumes all of them.
C8_StringRoundTrip ==
    (WithinCeiling /\ codec.fault = 0)
    => /\ codec.phase = "written" => codec.wret.tag = "Ok"
       /\ codec.phase = "read"
            => (codec.rret = Ok(codec.string) /\ codec.rest = <<>>)

\* C9: write_string refuses a string longer than i32::MAX bytes with
\* BadNetworkDataError and writes nothing of it; for every other string it
\* returns Ok and the length word it writes is the int32 L + 1.
C9_LengthCeiling ==
    codec.phase = "written"
    => IF WithinCeiling
       THEN /\ codec.wret.tag = "Ok"
            /\ codec.log # <<>>
            /\ HoldsLengthPlusOne(codec.log[1].data,
                                  len_as_i32(codec.string))
       ELSE codec.wret = Err(BadNetworkDataError) /\ codec.log = <<>>

\* C10: a command in which an I/O call fails issues no call after it and
\* returns the I/O error to its caller.
C10_FaultStopsCommand ==
    (cmd.name # "none" /\ SomeCallFailed(cmd.log))
    => /\ ~cmd.log[Len(cmd.log)].ok
       /\ \A i \in 1..(Len(cmd.log) - 1) : cmd.log[i].ok
       /\ cmd.ret = Err(IOError)

\* C11: close_device issues the write of opcode 3, the write of the handle
\* and one read of 4 bytes, and no other I/O call; when the read succeeds it
\* returns (), whatever the 4 bytes are, and has consumed exactly those 4
\* bytes; it ends otherwise only when an I/O call failed.
C11_CloseReadsFourBytesUnchecked ==
    cmd.name = "close_device"
    => /\ Issued(cmd.log)
            = << WriteCall(<<0, 0, 0, 3>>), WriteCall(HandleBytes(cmd.arg)),
                 ReadCall(4) >>
       /\ NoReadFailed(cmd.log)
            => /\ cmd.ret = Unit
               /\ BytesRead(cmd.log) = 4
               /\ cmd.pre = <<>> => cmd.rest = cmd.resp.tail
       /\ cmd.ret # Unit => SomeCallFailed(cmd.log)

C11_NonZeroWordDiscarded ==
    /\ cmd.name = "close_device"
    /\ cmd.pre = <<>>
    /\ cmd.resp.word # Success
    /\ cmd.resp.tail # <<>>
    /\ cmd.ret = Unit
    /\ cmd.rest = cmd.resp.tail

\* The array a peer sends as it is decoded: the present records in order,
\* then the absent element that ends it.
DecodedArray(records) ==
    [i \in 1..(Len(records) + 1)
       |-> IF i <= Len(records) THEN Some(records[i]) ELSE None]

\* C12: get_option_descriptors decodes the array from the first byte of the
\* response, with no status word before it, and returns every element it
\* decoded, present or absent, in the order received; nothing behind the
\* array is consumed.
C12_OptionsKeepOptionality ==
    ( /\ cmd.name = "get_option_descriptors"
      /\ cmd.pre = <<>>
      /\ NoReadFailed(cmd.log) )
    => /\ cmd.ret = Ok(DecodedArray(cmd.resp.options))
       /\ cmd.rest = cmd.resp.tail

C12_TwoOptionsAndAbsent ==
    /\ cmd.name = "get_option_descriptors"
    /\ Len(cmd.resp.options) = 2
    /\ cmd.resp.options[1] # cmd.resp.options[2]
    /\ cmd.ret.tag = "Ok"
    /\ Len(cmd.ret.val) = 3
    /\ cmd.ret.val[1] = Some(cmd.resp.options[1])
    /\ cmd.ret.val[3] = None

\* The bytes of the calls of a request.
RECURSIVE RequestBytes(_)
RequestBytes(calls) ==
    IF calls = <<>> THEN <<>>
    ELSE Cat(Head(calls).data, RequestBytes(Tail(calls)))

\* C17: a command that returns an error without having issued a read has
\* written no byte, and on a stream without faults a command has written
\* its complete request or nothing.
C17_NoPartialRequest ==
    cmd.name # "none"
    => /\ (cmd.ret.tag = "Err" /\ ~SomeRead(cmd.log)) => cmd.out = <<>>
       /\ (cmd.fault = 0 /\ cmd.name # "init")
            => cmd.out \in {<<>>, RequestBytes(Request(cmd))}

\* C18: a command that finds the stream aligned, is answered with exactly
\* the response of section 6 and returns with success or with a status
\* error has consumed the whole response: the next command starts at the
\* first byte of its own response.
C18_StreamStaysAligned ==
    ( /\ cmd.name # "none"
      /\ cmd.pre = <<>>
      /\ cmd.fault = 0
      /\ WellFormed(cmd.resp)
      /\ \/ cmd.ret.tag \in {"Ok", "Unit"}
         \/ cmd.ret.tag = "Err" /\ cmd.ret.val[1] = "SanedError" )
    => stream_in = <<>>

\* C14: check_success_status issues one read of 4 bytes and no other I/O
\* call; when the read fails it returns Err(IOError); otherwise it consumes
\* the status word alone, returns Ok(()) exactly when the code is that of
\* Success and Err(SanedError(s)), s the status of the code read, for every
\* other code.
C14_CheckSuccessStatus ==
    (unit.fn = "check_success_status" /\ unit.phase = "done")
    => /\ Issued(unit.log) = <<ReadCall(4)>>
       /\ IF unit.fault = 1 \/ unit.input.sent < 4
          THEN unit.ret = Err(IOError)
          ELSE /\ unit.rest = unit.input.tail
               /\ unit.ret = Ok(<<>>) <=> unit.input.code = Success
               /\ unit.input.code # Success
                    => unit.ret = Err(SanedError(Status_from(unit.input.code)))

C14_UnknownCodeReturned ==
    /\ unit.fn = "check_success_status"
    /\ unit.phase = "done"
    /\ unit.input.code = 99
    /\ unit.input.tail # <<>>
    /\ unit.ret.tag = "Err"
    /\ unit.ret.val[1] = "SanedError"
    /\ unit.ret.val[2].code = 99
    /\ unit.rest = unit.input.tail

\* The present entries of a decoded array, in their order.
PresentEntries(dev_list) ==
    [i \in 1..Len(SelectSeq(dev_list, LAMBDA e : e # None))
       |-> SelectSeq(dev_list, LAMBDA e : e # None)[i][1]]

\* C15: the devices request_device_list keeps of a decoded array are its
\* present entries in their relative order: an absent entry is dropped
\* wherever it stands and the present entries behind it are kept.
C15_AllAbsentEntriesDropped ==
    (unit.fn = "filter" /\ unit.phase = "done")
    => unit.ret = Ok(PresentEntries(unit.input))

C15_PresentAfterInteriorAbsent ==
    /\ unit.fn = "filter"
    /\ unit.phase = "done"
    /\ Len(unit.input) = 4
    /\ unit.input[1] # None
    /\ unit.input[2] = None
    /\ unit.input[3] # None
    /\ unit.input[3] # unit.input[1]
    /\ unit.input[4] = None
    /\ unit.ret = Ok(<<unit.input[1][1], unit.input[3][1]>>)

\* The exchange e is an OpenDevice that returned Handle(handle).
ReturnedHandle(e, handle) ==
    /\ e.name = "open_device"
    /\ e.ret.tag = "Ok"
    /\ e.ret.val[1] = "Handle"
    /\ e.ret.val[2] = handle

\* The exchange i of a history uses a handle.
UsesHandle(h, i) == h[i].name \in {"get_option_descriptors", "close_device"}

\* C13: in the client program Init is the first exchange; an exchange that
\* uses a handle (GetOptionDescriptors, CloseDevice) uses one that an
\* earlier OpenDevice returned as Handle(h), never after AuthRequired or an
\* error; no exchange uses a handle after CloseDevice was issued on it.
C13_ProgramOrder ==
    /\ prog.hist # <<>> => prog.hist[1].name = "init"
    /\ \A i \in 2..Len(prog.hist) : prog.hist[i].name # "init"
    /\ \A i \in 1..Len(prog.hist) :
         UsesHandle(prog.hist, i)
         => \E j \in 1..(i - 1) :
              ReturnedHandle(prog.hist[j], prog.hist[i].arg)
    /\ \A i, k \in 1..Len(prog.hist) :
         (i < k /\ prog.hist[i].name = "close_device"
                /\ UsesHandle(prog.hist, k))
         => prog.hist[k].arg # prog.hist[i].arg

C13_ProgramRanToTheEnd ==
    /\ prog.pc = "done"
    /\ Len(prog.hist) = 5
    /\ prog.hist[3].name = "open_device"
    /\ prog.hist[3].ret = Ok(Handle(prog.handle[1]))
    /\ prog.hist[4].name = "get_option_descriptors"
    /\ prog.hist[5].name = "close_device"
    /\ prog.hist[5].arg = prog.handle[1]

\* The request of a command of the history: a function of its name and its
\* argument.
SessionRequest(e) ==
    IF e.name = "init" THEN SubSeq(InitExchange, 1, 5) ELSE Request(e)

\* The handle is live at exchange i: an earlier OpenDevice returned it and
\* no CloseDevice was issued on it since.
Live(h, i, handle) ==
    \E j \in 1..(i - 1) :
      /\ ReturnedHandle(h[j], handle)
      /\ \A k \in (j + 1)..(i - 1) :
           ~(h[k].name = "close_device" /\ h[k].arg = handle)

\* C16: the writes a command issues are those of its request, a function of
\* its name and argument alone: two commands of one session with the same
\* name and argument issue the same writes, whatever was called and
\* answered before; CloseDevice and GetOptionDescriptors on a handle that
\* is not live (closed, or never opened) write the same request and go on
\* to read the response.
C16_RequestDependsOnArgumentsOnly ==
    prog.pc = "session"
    => /\ \A i \in 1..Len(prog.hist) :
            prog.hist[i].writes = SessionRequest(prog.hist[i])
       /\ \A i, j \in 1..Len(prog.hist) :
            (prog.hist[i].name = prog.hist[j].name
               /\ prog.hist[i].arg = prog.hist[j].arg)
            => prog.hist[i].writes = prog.hist[j].writes
       /\ \A i \in 1..Len(prog.hist) :
            (UsesHandle(prog.hist, i)
               /\ ~Live(prog.hist, i, prog.hist[i].arg))
            => prog.hist[i].nreads >= 1

C16_ClosedHandleUsedAgain ==
    /\ prog.pc = "session"
    /\ Len(prog.hist) = 2
    /\ prog.hist[1].name = "close_device"
    /\ prog.hist[1].arg = 42
    /\ prog.hist[2].name = "get_option_descriptors"
    /\ prog.hist[2].arg = 42
    /\ prog.hist[2].writes
         = <<WriteCall(<<0, 0, 0, 4>>), WriteCall(<<0, 0, 0, 42>>)>>
    /\ prog.hist[2].ret.tag = "Ok"

=============================================================================
